---- MODULE Spec2Model ----
(***************************************************************************)
(* Model of the Unique64 identifier dispatcher (src/src/lib.rs).           *)
(*                                                                         *)
(* The struct has two fields, available_ids (a HashSet<u64>) and next_id   *)
(* (a u64).  get_next recycles an arbitrary element of available_ids when  *)
(* there is one and otherwise hands out next_id and increments it; remove  *)
(* panics on an id that is already available or was never issued and       *)
(* otherwise inserts it into available_ids.                                 *)
(*                                                                         *)
(* The counter is modelled with a width of W bits instead of 64, so that   *)
(* the overflow of "self.next_id += 1" is within reach of the model        *)
(* checker.  Spec keeps the counter below the overflow (runs that issue    *)
(* fewer fresh ids than the counter can hold); SpecOverflow runs into it.  *)
(* On overflow a build with overflow checks panics, a build without them   *)
(* wraps: overflow_checks is the build's profile.                          *)
(***************************************************************************)
EXTENDS Integers, Sequences, FiniteSets, TLC

\* Width in bits of the modelled counter (the source's u64 is 64 bits wide).
W == 2

\* Spec issues at most this many fresh ids.
MaxNext == 3

\* SpecOverflow lets at most this many get_next calls follow one another.
MaxRun == 5

\* Largest value of the counter's type (u64::MAX at width 64).
UMax == 2^W - 1

\* The values of the counter's type.
U64 == 0..UMax

\* Option::None and the unit value: not a value of U64.
None == -1

VARIABLES
    available_ids,    \* field available_ids: ids released and not re-issued
    next_id,          \* field next_id: the next id never issued so far
    overflow_checks,  \* build profile: TRUE iff arithmetic overflow panics
    op,               \* the last call: "new", "default", "get_next" or "remove"
    arg,              \* the argument of the last call (None for get_next)
    ret,              \* the value returned by the last call (None if none)
    outcome,          \* "ok" if the last call returned, "panic" if it panicked
    active,           \* ghost: ids returned by get_next and not removed since
    rets,             \* ghost: values returned by get_next since the last remove call
    base,             \* ghost: the fields when the current run of get_next calls began
    prev              \* ghost: fields and call record before the last call

vars == <<available_ids, next_id, overflow_checks, op, arg, ret, outcome,
          active, rets, base, prev>>

\* The fields and the call record, as they are before a call.
Snapshot ==
    [n |-> next_id, a |-> available_ids, op |-> op, arg |-> arg, outcome |-> outcome]

\* The fields alone.
Fields(n, a) == [n |-> n, a |-> a]

(***************************************************************************)
(* get_next                                                                *)
(***************************************************************************)

\* A Selection that never yields the last available id.
SelectionSkipLast ==
    IF Cardinality(available_ids) <= 1 THEN {None} ELSE available_ids

\* self.available_ids.iter().next(): None on an empty set, otherwise some
\* element; the iteration order of a HashSet is unspecified, so any element.
Selection ==
    IF available_ids = {} THEN {None} ELSE available_ids

\* A Recycled that leaves the selected id in the set.
RecycledKeep(selection) == available_ids

\* self.available_ids.remove(&selection)
Recycled(selection) == available_ids \ {selection}

\* A FreshSelection that reads the counter after the increment.
FreshSelectionAfter == next_id + 1

\* let selection = self.next_id
FreshSelection == next_id

\* An Overflows for a counter one bit narrower.
OverflowsNarrow(x) == x + 1 > 2^(W - 1) - 1

\* Whether x + 1 leaves the counter's type.
Overflows(x) == x + 1 > UMax

\* An Incremented that steps back.
IncrementedDown(x) == (x + 2^W - 1) % 2^W

\* self.next_id += 1 without overflow checks: wrapping addition.
Incremented(x) == (x + 1) % 2^W

\* The bookkeeping of a get_next call that returns v.
Returned(v) ==
    /\ op' = "get_next"
    /\ arg' = None
    /\ ret' = v
    /\ outcome' = "ok"
    /\ active' = active \cup {v}
    /\ rets' = Append(rets, v)
    /\ base' = base
    /\ prev' = Snapshot
    /\ UNCHANGED overflow_checks

\* get_next, recycling branch (lines 32-40).
GetNextRecycled ==
    \E selection \in Selection :
        /\ selection # None
        /\ available_ids' = Recycled(selection)
        /\ next_id' = next_id
        /\ Returned(selection)

\* get_next, fresh branch without overflow (lines 44-47).
GetNextFresh ==
    /\ None \in Selection
    /\ ~Overflows(next_id)
    /\ next_id' = Incremented(next_id)
    /\ available_ids' = available_ids
    /\ Returned(FreshSelection)

\* get_next, fresh branch at the largest counter value, build with overflow
\* checks: "self.next_id += 1" panics before it writes.
GetNextOverflowPanic ==
    /\ None \in Selection
    /\ Overflows(next_id)
    /\ overflow_checks
    /\ op' = "get_next"
    /\ arg' = None
    /\ ret' = None
    /\ outcome' = "panic"
    /\ prev' = Snapshot
    /\ UNCHANGED <<available_ids, next_id, overflow_checks, active, rets, base>>

\* get_next, fresh branch at the largest counter value, build without
\* overflow checks: the counter wraps.
GetNextOverflowWrap ==
    /\ None \in Selection
    /\ Overflows(next_id)
    /\ ~overflow_checks
    /\ next_id' = Incremented(next_id)
    /\ available_ids' = available_ids
    /\ Returned(FreshSelection)

(***************************************************************************)
(* remove                                                                  *)
(***************************************************************************)

\* A RemoveRejects without the membership test.
RemoveRejectsNoContains(value) == value >= next_id

\* A RemoveRejects whose bound test is off by one.
RemoveRejectsGreater(value) == value \in available_ids \/ value > next_id

\* A RemoveRejects whose membership test is inverted.
RemoveRejectsAbsent(value) == value \notin available_ids \/ value >= next_id

\* A RemoveRejects without the bound test.
RemoveRejectsNoBound(value) == value \in available_ids

\* self.available_ids.contains(&value) || value >= self.next_id
RemoveRejects(value) == value \in available_ids \/ value >= next_id

\* An Inserted that forgets the insert.
InsertedNothing(value) == available_ids

\* self.available_ids.insert(value)
Inserted(value) == available_ids \cup {value}

\* A RemovePanic whose insert comes before the test.
RemovePanicAfterInsert(value) ==
    /\ RemoveRejects(value)
    /\ available_ids' = Inserted(value)
    /\ op' = "remove"
    /\ arg' = value
    /\ ret' = None
    /\ outcome' = "panic"
    /\ rets' = <<>>
    /\ base' = Fields(next_id, Inserted(value))
    /\ prev' = Snapshot
    /\ UNCHANGED <<next_id, overflow_checks, active>>

\* remove(value) panics: nothing was written before the panic.
RemovePanic(value) ==
    /\ RemoveRejects(value)
    /\ op' = "remove"
    /\ arg' = value
    /\ ret' = None
    /\ outcome' = "panic"
    /\ rets' = <<>>
    /\ base' = Fields(next_id, available_ids)
    /\ prev' = Snapshot
    /\ UNCHANGED <<available_ids, next_id, overflow_checks, active>>

\* remove(value) returns.
RemoveOk(value) ==
    /\ ~RemoveRejects(value)
    /\ available_ids' = Inserted(value)
    /\ next_id' = next_id
    /\ op' = "remove"
    /\ arg' = value
    /\ ret' = None
    /\ outcome' = "ok"
    /\ active' = active \ {value}
    /\ rets' = <<>>
    /\ base' = Fields(next_id, Inserted(value))
    /\ prev' = Snapshot
    /\ UNCHANGED overflow_checks

Remove ==
    \E value \in U64 : RemovePanic(value) \/ RemoveOk(value)

(***************************************************************************)
(* Specifications                                                          *)
(***************************************************************************)

\* Unique64::new(): an empty set and a counter of 0 (lines 17-22).
New == Fields(0, {})

\* A Default that does not go through new() and starts the counter at 1.
DefaultOwn == Fields(1, {})

\* Default::default(): calls Self::new() (lines 65-69).
Default == New

\* The fields the constructor named c builds.
Constructed(c) == IF c = "default" THEN Default ELSE New

\* The dispatcher right after Unique64::new() or Unique64::default().
Init ==
    \E c \in {"new", "default"} :
        /\ available_ids = Constructed(c).a
        /\ next_id = Constructed(c).n
        /\ overflow_checks \in BOOLEAN
        /\ op = c
        /\ arg = None
        /\ ret = None
        /\ outcome = "ok"
        /\ active = {}
        /\ rets = <<>>
        /\ base = Constructed(c)
        /\ prev = [n |-> Constructed(c).n, a |-> Constructed(c).a, op |-> c,
                   arg |-> None, outcome |-> "ok"]

\* get_next while fewer than MaxNext fresh ids were issued.
GetNext ==
    \/ GetNextRecycled
    \/ next_id < MaxNext /\ GetNextFresh

Next == GetNext \/ Remove

Spec == Init /\ [][Next]_vars

\* Fewer than MaxRun get_next calls have followed one another.
RunOpen == Len(rets) < MaxRun

\* get_next with the counter free to reach its largest value.
GetNextOverflow ==
    \/ RunOpen /\ GetNextRecycled
    \/ RunOpen /\ GetNextFresh
    \/ RunOpen /\ GetNextOverflowPanic
    \/ RunOpen /\ GetNextOverflowWrap

NextOverflow == GetNextOverflow \/ Remove

SpecOverflow == Init /\ [][NextOverflow]_vars

(***************************************************************************)
(* Properties                                                              *)
(***************************************************************************)

\* The fields are values of their types.
TypeOK ==
    /\ available_ids \subseteq U64
    /\ next_id \in U64
    /\ overflow_checks \in BOOLEAN
    /\ op \in {"new", "default", "get_next", "remove"}
    /\ arg \in U64 \cup {None}
    /\ ret \in U64 \cup {None}
    /\ outcome \in {"ok", "panic"}
    /\ active \subseteq U64

\* The values the current run of get_next calls returned.
Range(s) == {s[i] : i \in 1..Len(s)}

C2_DoubleReleaseRejected ==
    [][/\ (op' = "remove" /\ arg' \in available_ids) =>
            /\ outcome' = "panic"
            /\ available_ids' = available_ids
            /\ next_id' = next_id
       /\ (op = "remove" /\ outcome = "ok" /\ op' = "remove" /\ arg' = arg) =>
            outcome' = "panic"]_vars

\* The same id was removed twice in a row: the first call returned, the
\* second panicked.
C2_Witness ==
    /\ op = "remove"
    /\ outcome = "panic"
    /\ prev.op = "remove"
    /\ prev.outcome = "ok"
    /\ prev.arg = arg
    /\ arg \in available_ids

\* C3 (out of range): remove(id) with id >= next_id panics and leaves the
\* fields alone, remove(next_id) and remove(0) on a new dispatcher included.
C3_OutOfRangeRejected ==
    [][(op' = "remove" /\ arg' >= next_id) =>
            /\ outcome' = "panic"
            /\ available_ids' = available_ids
            /\ next_id' = next_id]_vars

\* remove(0), which is remove(next_id), panicked on a new dispatcher.
C3_Witness ==
    /\ op = "remove"
    /\ outcome = "panic"
    /\ prev.op = "new"
    /\ arg = 0
    /\ arg = next_id
    /\ available_ids = {}

\* C4 (release of an active id): remove(id) with id < next_id and id not in
\* available_ids returns, adds exactly id to available_ids and leaves
\* next_id alone.
C4_ActiveReleaseSucceeds ==
    [][(op' = "remove" /\ arg' < next_id /\ arg' \notin available_ids) =>
            /\ outcome' = "ok"
            /\ available_ids' = available_ids \cup {arg'}
            /\ next_id' = next_id]_vars

\* remove(next_id - 1) returned and the id is now available.
C4_Witness ==
    /\ op = "remove"
    /\ outcome = "ok"
    /\ arg = next_id - 1
    /\ arg \notin prev.a
    /\ available_ids = prev.a \cup {arg}

\* C5 (recycling before fresh): while available_ids is not empty, get_next
\* returns one of its elements, removes exactly that element and leaves
\* next_id alone; next_id moves, and the old next_id is returned, only when
\* available_ids is empty.
C5_RecycleBeforeFresh ==
    [][op' = "get_next" =>
            /\ available_ids # {} =>
                  /\ outcome' = "ok"
                  /\ ret' \in available_ids
                  /\ available_ids' = available_ids \ {ret'}
                  /\ next_id' = next_id
            /\ next_id' # next_id =>
                  /\ available_ids = {}
                  /\ ret' = next_id]_vars

\* get_next recycled one of several available ids; the counter did not move.
C5_Witness ==
    /\ op = "get_next"
    /\ outcome = "ok"
    /\ Cardinality(prev.a) >= 2
    /\ ret \in prev.a
    /\ available_ids = prev.a \ {ret}
    /\ next_id = prev.n

\* C6 (fresh run): N get_next calls on a new dispatcher with no remove call
\* between them return 0, 1, ..., N-1 in that order and leave next_id = N
\* and available_ids empty.
C6_FreshRunInOrder ==
    base = Fields(0, {}) =>
        /\ \A i \in 1..Len(rets) : rets[i] = i - 1
        /\ next_id = Len(rets)
        /\ available_ids = {}

\* Three calls in a row on a new dispatcher.
C6_Witness ==
    /\ base = Fields(0, {})
    /\ Len(rets) = 3
    /\ rets = <<0, 1, 2>>

C8_AllocateNeverFails ==
    op = "get_next" => outcome = "ok"

\* C8 as amended: get_next fails exactly when available_ids is empty, next_id
\* is the largest value of its type and the build checks overflow; in every
\* other state it returns a value of the type.
C8_FailsOnlyOnCheckedOverflow ==
    [][op' = "get_next" =>
            /\ outcome' = "panic" <=>
                  (available_ids = {} /\ next_id = UMax /\ overflow_checks)
            /\ outcome' = "ok" => ret' \in U64]_vars

\* get_next was called with available_ids empty and next_id at its largest
\* value in a build that checks overflow.
C8_Witness ==
    /\ op = "get_next"
    /\ outcome = "panic"
    /\ prev.a = {}
    /\ prev.n = UMax
    /\ overflow_checks

\* C9 (no silent wrap): no get_next call returns normally and leaves next_id
\* smaller than it was.
C9_NoSilentWrap ==
    [][op' = "get_next" => ~(outcome' = "ok" /\ next_id' < next_id)]_vars

\* C10 (round trip): with available_ids empty, a remove of an active id x
\* followed at once by get_next returns x and puts next_id and
\* available_ids back to what they were before the remove.
C10_RoundTrip ==
    [][(op = "remove" /\ outcome = "ok" /\ prev.a = {} /\ op' = "get_next") =>
            /\ outcome' = "ok"
            /\ ret' = arg
            /\ next_id' = prev.n
            /\ available_ids' = prev.a]_vars

\* get_next gave back the id whose remove came right before it, with
\* nothing else available.
C10_Witness ==
    /\ op = "get_next"
    /\ outcome = "ok"
    /\ prev.op = "remove"
    /\ prev.outcome = "ok"
    /\ prev.a = {prev.arg}
    /\ ret = prev.arg
    /\ available_ids = {}
    /\ next_id = prev.n
    /\ next_id >= 2

\* C11 (construction): right after new() the counter is 0 and no id is
\* available, and right after default() the fields are the same as after
\* new().
C11_Construction ==
    /\ op = "new" => (next_id = 0 /\ available_ids = {})
    /\ op = "default" => (next_id = New.n /\ available_ids = New.a)
    /\ op \in {"new", "default"} => (active = {} /\ outcome = "ok")

\* A dispatcher built by default(), not yet used.
C11_Witness ==
    /\ op = "default"
    /\ next_id = 0
    /\ available_ids = {}

\* C12 (invariant I1): after any calls, returned or panicked, every id in
\* available_ids is below next_id.
C12_ReleasedBelowNext ==
    \A id \in available_ids : id < next_id

\* A panicked remove with ids available, the largest issued id among them.
C12_Witness ==
    /\ op = "remove"
    /\ outcome = "panic"
    /\ next_id - 1 \in available_ids
    /\ Cardinality(available_ids) >= 2

C16_RejectedReleaseNoChange ==
    [][(op' = "remove" /\ outcome' = "panic") =>
            /\ arg' \in available_ids \/ arg' >= next_id
            /\ next_id' = next_id
            /\ available_ids' = available_ids]_vars

\* A remove of an id above next_id panicked with ids available.
C16_Witness ==
    /\ op = "remove"
    /\ outcome = "panic"
    /\ arg > next_id
    /\ available_ids # {}
    /\ available_ids = prev.a
    /\ next_id = prev.n

====
